---- MODULE Spec2Model ----
(***************************************************************************)
(* A model of splunk_data_sender.SplunkSender: construction and its        *)
(* validation, the record formatter, the URL/header dispatcher, the        *)
(* response interpreter with its lookup tables, and the three public       *)
(* operations (get_health, send_data, send_acks) running over a requests   *)
(* session whose adapter carries the urllib3 Retry policy the constructor  *)
(* mounts.                                                                 *)
(*                                                                         *)
(* Python values are modelled as follows.  None is the string NoneVal.     *)
(* A record handed to the formatter is a value [kind, str, map]: a str     *)
(* (kind "str") or a dict (kind "dict", map a function from its keys to    *)
(* scalar values).  A response body is the text of the response seen       *)
(* through json.loads: a JSON object with an optional "code" and an        *)
(* optional "acks" member, or a text that json.loads rejects.              *)
(***************************************************************************)
EXTENDS Integers, Sequences, FiniteSets, TLC

VARIABLES
    self,       \* the connector object, NoConnector before construction
    ctor,       \* what the last call of SplunkSender(...) did
    fmt,        \* what the last call of _format_record did
    res,        \* what the last call of _dispatch_url_headers did
    dec,        \* what the last decoding of a (status, code) pair did
    pc,         \* "idle", or "inflight" while session.get/post is running
    call,       \* the public operation in progress and its request
    total,      \* Retry.total left for the request in flight
    attempts,   \* what each attempt of the request in flight was answered
    outcome,    \* the results the caller of the operation has observed
    log,        \* the log lines of the operation
    consulted   \* whether the operation called _dispatch_splunk_res_code

vars == <<self, ctor, fmt, res, dec, pc, call, total, attempts, outcome, log, consulted>>

-----------------------------------------------------------------------------
(* Bounds of the model *)

\* the largest retry_count, the default apart, of the connectors the
\* operations are run on
MaxRetry == 3
\* the largest application code of a decoded (status, code) pair
MaxCode == 18
\* the largest ack id, and the longest list of ack ids, handed to send_acks
MaxAck == 3

-----------------------------------------------------------------------------
(* Python values *)

NoneVal == "<None>"

Truthy(v) == v # NoneVal /\ v # ""

EmptyMap == [k \in {} |-> ""]

PyStr(s) == [kind |-> "str", str |-> s, map |-> EmptyMap]

PyDict(m) == [kind |-> "dict", str |-> "", map |-> m]

\* the caller's record object, as a reference: what it holds is read when
\* the envelope is serialized
RecordRef == [kind |-> "ref", str |-> "", map |-> EmptyMap]

isdict(v) == v.kind = "dict"

\* str.__contains__
Contains(s, t) ==
    \E i \in 1..(Len(s) - Len(t) + 1) : SubSeq(s, i, i + Len(t) - 1) = t

-----------------------------------------------------------------------------
(* SplunkSender.__init__ *)

Endpoint == "splunk.example"
Token == "tok"
DefaultPort == "8088"
DefaultSource == "Splunk data sender"
DefaultIndex == "main"
\* retry_count=5 in the signature of __init__
retry_count_default == 5
Hostname == "host-1"

NoConnector == [constructed |-> FALSE]

status_forcelist_without_503 == {500, 502, 504}

\* the status codes the mounted Retry forces a retry on
status_forcelist == {500, 502, 503, 504}

\* the api_url values that are the raw-data endpoint, unversioned or carrying
\* the connector's api_version
raw_api_urls_unversioned(api_version) == {"collector/raw"}

raw_api_urls(api_version) == {"collector/raw", "collector/raw/" \o api_version}

\* __init__: the argument record a holds the keyword arguments varied here
\* (the others keep their defaults).  Yields the exception raised ("" for
\* none), the object built and the lines logged.
__init__(a) ==
    LET protocol == IF a.protocol \in {"http", "https"} THEN a.protocol ELSE "https"
        api_version == IF Truthy(a.api_version) THEN a.api_version ELSE ""
        channel_in == IF a.channel_in \in {"url", "header"} THEN a.channel_in ELSE "url"
        obj == [constructed |-> TRUE,
                endpoint |-> Endpoint, token |-> Token, protocol |-> protocol,
                port |-> DefaultPort, source |-> DefaultSource, hostname |-> Hostname,
                allow_overrides |-> a.allow_overrides, source_type |-> a.source_type,
                api_url |-> a.api_url, api_version |-> api_version,
                index |-> DefaultIndex, channel |-> a.channel, channel_in |-> channel_in,
                verify |-> a.verify, retry_count |-> a.retry_count]
        log0 == IF a.verify /\ protocol = "http"
                THEN <<"ERROR You should not use SSL Verify and unsecured connection">>
                ELSE <<>>
    IN  IF api_version # "" /\ a.api_url = "collector"
        THEN [raised |-> "ValueError", obj |-> NoConnector,
              log |-> log0 \o <<"ERROR /collector api does not support versioning">>]
        ELSE IF a.source_type = "_json"
                /\ a.api_url \in raw_api_urls(api_version)
        THEN [raised |-> "ValueError", obj |-> NoConnector,
              log |-> log0 \o <<"ERROR cannot send json record as raw data">>]
        ELSE IF a.source_type = "_json" /\ a.api_url # "collector/event"
        THEN [raised |-> "", obj |-> obj,
              log |-> log0 \o <<"WARNING Requests containing the fields property must send to /collector/event endpoint">>]
        ELSE [raised |-> "", obj |-> obj, log |-> log0]

Protocols == {"http", "https", "ftp"}
SourceTypes == {"generic_single_line", "_json"}
ApiUrls == {"collector", "collector/event", "collector/raw", "collector/raw/1.0",
            "collector/raw/2.0", "collector/raw/", "collector/mint"}
ApiVersions == {NoneVal, "", "1.0", "2.0"}
Channels == {NoneVal, "c-1"}
ChannelIns == {"url", "header", "body"}

\* the arguments a connector may be constructed with
CtorArgs ==
    [protocol : Protocols, source_type : SourceTypes, allow_overrides : BOOLEAN,
     api_url : ApiUrls, api_version : ApiVersions, channel : Channels,
     channel_in : ChannelIns, verify : BOOLEAN, retry_count : {0, retry_count_default}]

DefaultArgs ==
    [protocol |-> "https", source_type |-> "generic_single_line",
     allow_overrides |-> FALSE, api_url |-> "collector/event", api_version |-> NoneVal,
     channel |-> NoneVal, channel_in |-> "url", verify |-> TRUE,
     retry_count |-> retry_count_default]

\* the connectors that construction yields from a set of arguments
Connectors(args) == {__init__(a).obj : a \in {b \in args : __init__(b).raised = ""}}

-----------------------------------------------------------------------------
(* SplunkSender._dispatch_url_headers *)

NoHeaders == [h \in {} |-> ""]

_dispatch_url_headers(obj, action) ==
    LET base_url == obj.protocol \o "://" \o obj.endpoint \o ":" \o obj.port \o "/services"
        suffix_url == CASE action = "get-health" -> "collector/health"
                        [] action = "send-event" -> obj.api_url
                        [] action = "send-ack" -> "collector/ack"
                        [] OTHER -> NoneVal
        url0 == base_url \o "/" \o suffix_url
        url1 == IF obj.api_version # "" /\ action # "send-ack"
                THEN url0 \o "/" \o obj.api_version
                ELSE url0
        headers == [h \in {"Authorization"} |-> "Splunk " \o obj.token]
        withChannel == Truthy(obj.channel) /\ action # "send-health"
    IN  IF ~Truthy(suffix_url)
        THEN [raised |-> "ValueError", url |-> "", headers |-> NoHeaders]
        ELSE IF withChannel /\ obj.channel_in = "url"
        THEN [raised |-> "", url |-> url1 \o "?channel=" \o obj.channel, headers |-> headers]
        ELSE IF withChannel
        THEN [raised |-> "", url |-> url1,
              headers |-> [h \in {"Authorization", "x-splunk-request-channel"} |->
                              IF h = "Authorization" THEN headers[h] ELSE obj.channel]]
        ELSE [raised |-> "", url |-> url1, headers |-> headers]

\* the actions the public operations dispatch, and one that does not exist
Actions == {"get-health", "send-event", "send-ack", "send-health"}

-----------------------------------------------------------------------------
(* SplunkSender._get_splunk_attr and SplunkSender._format_record *)

Now == "<time.time()>"

_get_splunk_attr_without_del(this, obj, attr, default) ==
    IF isdict(obj) /\ this.allow_overrides
    THEN [val |-> IF attr \in DOMAIN obj.map THEN PyStr(obj.map[attr]) ELSE default,
          obj |-> obj, log |-> <<>>]
    ELSE [val |-> default, obj |-> obj, log |-> <<>>]

\* obj is what the caller's record holds when the call is made, default a
\* Python value.  Yields the value and what the record holds afterwards.
_get_splunk_attr(this, obj, attr, default) ==
    IF isdict(obj) /\ this.allow_overrides
    THEN [val |-> IF attr \in DOMAIN obj.map THEN PyStr(obj.map[attr]) ELSE default,
          obj |-> PyDict([k \in (DOMAIN obj.map) \ {attr} |-> obj.map[k]]),
          log |-> IF attr \in DOMAIN obj.map THEN <<>>
                  ELSE <<"WARNING Using default value for " \o attr>>]
    ELSE [val |-> default, obj |-> obj, log |-> <<>>]

\* json.dumps of the params dict, read back as the JSON object it denotes:
\* a reference to the caller's record is written out as what the record
\* holds at that moment
json_dumps(params, record) ==
    [k \in DOMAIN params |-> IF params[k] = RecordRef THEN record ELSE params[k]]

_format_record(this, record) ==
    LET t == _get_splunk_attr(this, record, "time", PyStr(Now))
        h == _get_splunk_attr(this, t.obj, "host", PyStr(this.hostname))
        s == _get_splunk_attr(this, h.obj, "source", PyStr(this.source))
        st == _get_splunk_attr(this, s.obj, "sourcetype", PyStr(this.source_type))
        i == _get_splunk_attr(this, st.obj, "index", PyStr(this.index))
        e == _get_splunk_attr(this, i.obj, "event", RecordRef)
        withFields == this.source_type = "_json" /\ isdict(record)
        keys == {"time", "host", "source", "sourcetype", "index", "event"}
                   \cup (IF withFields THEN {"fields"} ELSE {})
        params == [k \in keys |->
                     CASE k = "time" -> t.val
                       [] k = "host" -> h.val
                       [] k = "source" -> s.val
                       [] k = "sourcetype" -> st.val
                       [] k = "index" -> i.val
                       [] k = "event" -> e.val
                       [] k = "fields" -> RecordRef]
    IN  [envelope |-> json_dumps(params, e.obj), record |-> e.obj]

RecordKeys == {"time", "host", "source", "sourcetype", "index", "event", "extra"}

\* the value a dict record holds under key k
RecVal(k) == "rec-" \o k

\* the records handed to the formatter: a str, and every dict over RecordKeys
Records ==
    {PyStr("a log line")} \cup {PyDict([k \in d |-> RecVal(k)]) : d \in SUBSET RecordKeys}

-----------------------------------------------------------------------------
(* SplunkSender._dispatch_splunk_res_code, _dispatch_splunk_health_res *)

SplunkResCodes ==
    200 :> (0 :> "Success")
    @@ 400 :> (5 :> "No data" @@ 6 :> "Invalid data format" @@ 7 :> "Incorrect index"
               @@ 10 :> "Data channel is missing" @@ 11 :> "Invalid data channel"
               @@ 12 :> "Event field is required" @@ 13 :> "Event field cannot be blank"
               @@ 14 :> "ACK is disabled" @@ 15 :> "Error in handling indexed fields"
               @@ 16 :> "Query string authorization is not enabled")
    @@ 401 :> (2 :> "Token is required" @@ 3 :> "Invalid authorization")
    @@ 403 :> (1 :> "Token disabled" @@ 4 :> "Invalid token")
    @@ 500 :> (8 :> "Internal server error")
    @@ 503 :> (9 :> "Server is busy")

_dispatch_splunk_res_code_with_default(HTTP_code, splunk_code) ==
    IF HTTP_code \in DOMAIN SplunkResCodes
          /\ splunk_code \in DOMAIN SplunkResCodes[HTTP_code]
    THEN [raised |-> "", msg |-> SplunkResCodes[HTTP_code][splunk_code]]
    ELSE [raised |-> "", msg |-> "Not a valid Splunk Error"]

_dispatch_splunk_res_code(HTTP_code, splunk_code) ==
    IF HTTP_code \notin DOMAIN SplunkResCodes
    THEN [raised |-> "KeyError", msg |-> ""]
    ELSE IF splunk_code \in DOMAIN SplunkResCodes[HTTP_code]
    THEN [raised |-> "", msg |-> SplunkResCodes[HTTP_code][splunk_code]]
    ELSE [raised |-> "", msg |-> "Not a valid Splunk Error"]

_dispatch_splunk_health_res(HTTP_code) ==
    LET message == CASE HTTP_code = 200 -> "HEC is available and accepting input"
                     [] HTTP_code = 400 -> "Invalid HEC token"
                     [] HTTP_code = 503 -> "HEC is unhealthy, queues are full"
                     [] OTHER -> NoneVal
    IN  [is_healthy |-> (HTTP_code = 200), message |-> message]

-----------------------------------------------------------------------------
(* Responses, SplunkSender._check_splunk_response *)

\* json.loads(text) of a response: an object with or without a "code"
\* member (hascode; a null code counts as none) and with or without an
\* "acks" member, or no JSON at all (kind "text")
JsonBody(hascode, code, acks) ==
    [kind |-> "object", hascode |-> hascode, code |-> code, acks |-> acks]

TextBody == [kind |-> "text", hascode |-> FALSE, code |-> 0, acks |-> FALSE]

Response(status, body) == [kind |-> "response", status |-> status, body |-> body]

\* a timeout or a refused connection instead of a response
NetworkFailure == [kind |-> "error", status |-> 0, body |-> TextBody]

raise_for_status_skipped(status) == ""

\* requests.Response.raise_for_status
raise_for_status(status) == IF 400 <= status /\ status < 600 THEN "HTTPError" ELSE ""

_check_splunk_response(splunk_response) ==
    LET status == splunk_response.status
        body == splunk_response.body
        d == _dispatch_splunk_res_code(status, body.code)
    IN  IF body.kind # "object"
        THEN [raised |-> "JSONDecodeError", log |-> <<>>, consulted |-> FALSE]
        ELSE IF 200 <= status /\ status <= 299
        THEN [raised |-> "",
              log |-> IF body.acks THEN <<"INFO Splunk ack response arrived">> ELSE <<>>,
              consulted |-> FALSE]
        ELSE IF body.hascode /\ d.raised # ""
        THEN [raised |-> d.raised, log |-> <<>>, consulted |-> TRUE]
        ELSE IF body.hascode
        THEN [raised |-> raise_for_status(status),
              log |-> <<"ERROR Splunk response: -code: " \o ToString(body.code)
                        \o ", -HTTPcode: " \o ToString(status)
                        \o ", -message: " \o d.msg>>,
              consulted |-> TRUE]
        ELSE [raised |-> raise_for_status(status),
              log |-> <<"WARNING Response does not come directly from Splunk">>,
              consulted |-> FALSE]

Statuses == {200, 201, 204, 304, 400, 401, 403, 404, 500, 502, 503, 504}

Bodies ==
    {TextBody} \cup {JsonBody(TRUE, c, FALSE) : c \in 0..MaxCode}
               \cup {JsonBody(FALSE, 0, a) : a \in BOOLEAN}

-----------------------------------------------------------------------------
(* The state before any call, and the calls of the parts taken alone *)

NoCall == [op |-> "none"]

Untouched ==
    /\ ctor = [made |-> FALSE]
    /\ fmt = [made |-> FALSE]
    /\ res = [made |-> FALSE]
    /\ dec = [made |-> FALSE]
    /\ pc = "idle"
    /\ call = NoCall
    /\ total = 0
    /\ attempts = <<>>
    /\ outcome = <<>>
    /\ log = <<>>
    /\ consulted = FALSE

\* SplunkSender(**a): a raise leaves the caller without a connector
Construct(a) ==
    /\ ~ctor.made
    /\ ctor' = [made |-> TRUE, args |-> a, raised |-> __init__(a).raised,
                log |-> __init__(a).log]
    /\ self' = __init__(a).obj
    /\ UNCHANGED <<fmt, res, dec, pc, call, total, attempts, outcome, log, consulted>>

\* self._dispatch_url_headers(action)
Resolve(action) ==
    /\ self.constructed
    /\ res' = [made |-> TRUE, action |-> action,
               raised |-> _dispatch_url_headers(self, action).raised,
               url |-> _dispatch_url_headers(self, action).url,
               headers |-> _dispatch_url_headers(self, action).headers]
    /\ UNCHANGED <<self, ctor, fmt, dec, pc, call, total, attempts, outcome, log, consulted>>

\* self._format_record(record): the envelope written, and what the caller's
\* record holds once the call has returned
Format(record) ==
    /\ self.constructed
    /\ fmt' = [made |-> TRUE, input |-> record,
               envelope |-> _format_record(self, record).envelope,
               record |-> _format_record(self, record).record]
    /\ UNCHANGED <<self, ctor, res, dec, pc, call, total, attempts, outcome, log, consulted>>

\* SplunkSender._dispatch_splunk_res_code(HTTP_code, splunk_code)
Decode(HTTP_code, splunk_code) ==
    /\ dec' = [made |-> TRUE, via |-> "decode", status |-> HTTP_code,
               body |-> JsonBody(TRUE, splunk_code, FALSE),
               raised |-> _dispatch_splunk_res_code(HTTP_code, splunk_code).raised,
               msg |-> _dispatch_splunk_res_code(HTTP_code, splunk_code).msg,
               log |-> <<>>]
    /\ UNCHANGED <<self, ctor, fmt, res, pc, call, total, attempts, outcome, log, consulted>>

\* self._check_splunk_response(r)
Check(r) ==
    /\ dec' = [made |-> TRUE, via |-> "check", status |-> r.status, body |-> r.body,
               raised |-> _check_splunk_response(r).raised,
               msg |-> "",
               log |-> _check_splunk_response(r).log]
    /\ UNCHANGED <<self, ctor, fmt, res, pc, call, total, attempts, outcome, log, consulted>>

InitConstruct == self = NoConnector /\ Untouched

NextConstruct == \E a \in CtorArgs : Construct(a)

SpecConstruct == InitConstruct /\ [][NextConstruct]_vars

InitResolve == self \in Connectors(CtorArgs) /\ Untouched

NextResolve == \E action \in Actions : Resolve(action)

SpecResolve == InitResolve /\ [][NextResolve]_vars

\* the connectors the formatter is run on: every source type, overrides
\* allowed and not
FormatArgs ==
    {a \in CtorArgs : \A f \in (DOMAIN a) \ {"source_type", "allow_overrides"} :
                         a[f] = DefaultArgs[f]}

InitFormat == self \in Connectors(FormatArgs) /\ Untouched

NextFormat == \E record \in Records : Format(record)

SpecFormat == InitFormat /\ [][NextFormat]_vars

InitInterpret == self = __init__(DefaultArgs).obj /\ Untouched

NextInterpret ==
    \/ \E h \in Statuses, c \in 0..MaxCode : Decode(h, c)
    \/ \E h \in Statuses, b \in Bodies : Check(Response(h, b))

SpecInterpret == InitInterpret /\ [][NextInterpret]_vars

-----------------------------------------------------------------------------
(* The public operations over the session *)

PyInt(n) == [kind |-> "int", int |-> n]

PyList(items) == [kind |-> "list", items |-> items]

aslist_without_append(x) == IF x.kind = "list" THEN x.items ELSE <<>>

\* "if not isinstance(x, list)": a value that is no list is wrapped in one
aslist(x) == IF x.kind = "list" THEN x.items ELSE <<x>>

RECURSIVE json_dumps_ints(_)
\* json.dumps of the members of a list of ints, without the brackets
json_dumps_ints(ids) ==
    IF ids = <<>> THEN ""
    ELSE IF Len(ids) = 1 THEN ToString(ids[1].int)
    ELSE ToString(ids[1].int) \o ", " \o json_dumps_ints(Tail(ids))

\* json.dumps({"acks": acks})
json_dumps_acks(acks) == "{\"acks\": [" \o json_dumps_ints(acks) \o "]}"

NoPayload == [kind |-> "none", envelopes |-> <<>>, text |-> ""]

\* what the session is asked to send once _send_to_splunk or
\* _get_from_splunk has dispatched the url and the headers
Request(method, action, payload, compress) ==
    LET d == _dispatch_url_headers(self, action)
    IN  [method |-> method, action |-> action, url |-> d.url,
         headers |-> IF compress
                     THEN [h \in (DOMAIN d.headers) \cup {"Content-Encoding"} |->
                             IF h = "Content-Encoding" THEN "gzip" ELSE d.headers[h]]
                     ELSE d.headers,
         payload |-> payload, gzip |-> compress]

\* session.get / session.post begins: the adapter's Retry starts with
\* total = retry_count
Begin(op, arg, request, lines) ==
    /\ pc' = "inflight"
    /\ call' = [op |-> op, arg |-> arg, request |-> request]
    /\ total' = self.retry_count
    /\ attempts' = <<>>
    /\ outcome' = <<>>
    /\ log' = lines
    /\ consulted' = FALSE
    /\ UNCHANGED <<self, ctor, fmt, res, dec>>

get_health ==
    /\ pc = "idle" /\ self.constructed
    /\ Begin("get_health", NoPayload, Request("GET", "get-health", NoPayload, FALSE), <<>>)

send_data(records, compress) ==
    /\ pc = "idle" /\ self.constructed
    /\ LET list == aslist(records)
           payload == [kind |-> "events",
                       envelopes |-> [i \in 1..Len(list) |->
                                        _format_record(self, list[i]).envelope],
                       text |-> ""]
       IN  Begin("send_data", records,
                 Request("POST", "send-event", payload, compress),
                 IF list = <<>> THEN <<"ERROR No payload provided">> ELSE <<>>)

send_acks(acks) ==
    /\ pc = "idle" /\ self.constructed
    /\ LET payload == [kind |-> "json", envelopes |-> <<>>,
                       text |-> json_dumps_acks(aslist(acks))]
       IN  Begin("send_acks", acks, Request("POST", "send-ack", payload, FALSE), <<>>)

\* the adapter's Retry, as urllib3 1.26 runs the policy of lines 127-131 (the
\* urllib3 that still takes method_whitelist): an answer is retried when it is
\* a connection error or a timeout, or carries a status of the forcelist,
\* whatever the verb and whatever the body
is_retry(r) == r.kind = "error" \/ r.status \in status_forcelist

\* Retry.increment and Retry.is_exhausted: the count left after one more
\* retry, and whether it is used up
is_exhausted(t) == t - 1 < 0

\* the "except (..., RequestException, RetryError)" clause of
\* _send_to_splunk and _get_from_splunk
MaxRetriesLine ==
    "ERROR " \o call.request.method \o ", Max retries exceeded with url: "
       \o call.request.url \o ". Timeout or Connection refused"

Raise(exc) == [kind |-> "raise", exc |-> exc]

Return(value) == [kind |-> "return", value |-> value]

\* an attempt is answered by r and the adapter sends the request again
Retry(r) ==
    /\ pc = "inflight"
    /\ is_retry(r) /\ ~is_exhausted(total)
    /\ total' = total - 1
    /\ attempts' = Append(attempts, r)
    /\ UNCHANGED <<self, ctor, fmt, res, dec, pc, call, outcome, log, consulted>>

\* an attempt is answered by r with no retry left: the session raises, the
\* except clause logs and raises again
GiveUp(r) ==
    /\ pc = "inflight"
    /\ is_retry(r) /\ is_exhausted(total)
    /\ pc' = "idle"
    /\ total' = total - 1
    /\ attempts' = Append(attempts, r)
    /\ outcome' = <<Raise(IF r.kind = "error" THEN "ConnectionError" ELSE "RetryError")>>
    /\ log' = Append(log, MaxRetriesLine)
    /\ UNCHANGED <<self, ctor, fmt, res, dec, call, consulted>>

\* an attempt is answered by a response the adapter hands back: the rest of
\* _send_to_splunk / _get_from_splunk and of the public operation runs
Deliver(r) ==
    /\ pc = "inflight"
    /\ ~is_retry(r)
    /\ pc' = "idle"
    /\ attempts' = Append(attempts, r)
    /\ LET chk == _check_splunk_response(r)
           health == _dispatch_splunk_health_res(r.status)
       IN  /\ consulted' = chk.consulted
           /\ IF chk.raised = "HTTPError"
              THEN /\ outcome' = <<Raise("HTTPError")>>
                   /\ log' = log \o chk.log \o <<MaxRetriesLine>>
              ELSE IF chk.raised # ""
              THEN /\ outcome' = <<Raise(chk.raised)>>
                   /\ log' = log \o chk.log
              ELSE IF call.op = "get_health"
              THEN /\ outcome' = <<Return(health.is_healthy)>>
                   /\ log' = log \o chk.log
                             \o <<(IF health.is_healthy THEN "INFO " ELSE "ERROR ")
                                     \o health.message>>
              ELSE /\ outcome' = <<Return(r.body)>>
                   /\ log' = log \o chk.log
    /\ UNCHANGED <<self, ctor, fmt, res, dec, call, total>>

\* what the endpoint, or the network, answers an attempt
Answers ==
    { Response(500, JsonBody(TRUE, 8, FALSE)), Response(502, JsonBody(FALSE, 0, FALSE)),
      Response(503, JsonBody(TRUE, 9, FALSE)), Response(504, TextBody),
      NetworkFailure,
      Response(200, JsonBody(TRUE, 0, FALSE)), Response(200, JsonBody(FALSE, 0, TRUE)),
      Response(200, TextBody), Response(201, JsonBody(TRUE, 0, FALSE)),
      Response(304, JsonBody(FALSE, 0, FALSE)),
      Response(400, JsonBody(TRUE, 7, FALSE)), Response(400, JsonBody(TRUE, 9, FALSE)),
      Response(400, JsonBody(FALSE, 0, FALSE)),
      Response(401, JsonBody(TRUE, 3, FALSE)), Response(403, JsonBody(TRUE, 4, FALSE)),
      Response(404, JsonBody(TRUE, 7, FALSE)), Response(404, TextBody) }

\* the connectors the operations are run on: the default one, and those with
\* a retry_count of at most MaxRetry
TransportArgs ==
    {[DefaultArgs EXCEPT !.retry_count = n] : n \in (0..MaxRetry) \cup {retry_count_default}}

DataArgs ==
    { PyStr("a log line"),
      PyList(<<PyStr("a log line"), PyDict([k \in {"source", "extra"} |-> RecVal(k)])>>),
      PyList(<<>>) }

Init == self \in Connectors(TransportArgs) /\ Untouched

Next ==
    \/ get_health
    \/ \E records \in DataArgs, compress \in BOOLEAN : send_data(records, compress)
    \/ \E acks \in {PyInt(1), PyList(<<PyInt(1), PyInt(2), PyInt(3)>>)} : send_acks(acks)
    \/ \E r \in Answers : Retry(r)
    \/ \E r \in Answers : GiveUp(r)
    \/ \E r \in Answers : Deliver(r)

Spec == Init /\ [][Next]_vars

\* the arguments of send_acks: an ack id, or a list of at most MaxAck of them
AckArgs ==
    {PyInt(n) : n \in 1..MaxAck}
       \cup {PyList([i \in 1..Len(f) |-> PyInt(f[i])]) :
               f \in UNION {[1..len -> 1..MaxAck] : len \in 0..MaxAck}}

InitAcks ==
    /\ self \in Connectors({[DefaultArgs EXCEPT !.retry_count = 1, !.api_version = v] :
                              v \in {NoneVal, "1.0"}})
    /\ Untouched

NextAcks ==
    \/ \E acks \in AckArgs : send_acks(acks)
    \/ \E r \in Answers : Retry(r)
    \/ \E r \in Answers : GiveUp(r)
    \/ \E r \in Answers : Deliver(r)

SpecAcks == InitAcks /\ [][NextAcks]_vars

-----------------------------------------------------------------------------
(* The properties *)

\* the statuses the specification names as retried
RetriedStatuses == {500, 502, 503, 504}

Is2xx(status) == 200 <= status /\ status <= 299

\* C1: retry transparency of send_data.  While at most retry_count answers
\* have come in and each is a response with a status of {500, 502, 503, 504},
\* the request is still in flight and the caller has observed nothing; when
\* such answers are followed by a 2xx response with a JSON body, send_data
\* returns and the caller observes exactly one result, the parsed body of
\* that response.  At no time has the caller observed more than one result.
C1_RetryTransparency ==
    /\ Len(outcome) <= 1
    /\ (pc = "inflight" => outcome = <<>>)
    /\ (call.op = "send_data" /\ attempts # <<>>) =>
          LET n == Len(attempts)
              failed(i) == attempts[i].kind = "response"
                              /\ attempts[i].status \in RetriedStatuses
          IN  /\ ((\A i \in 1..n : failed(i)) /\ n <= self.retry_count)
                    => (pc = "inflight" /\ outcome = <<>>)
              /\ (/\ pc = "idle"
                  /\ \A i \in 1..(n - 1) : failed(i)
                  /\ attempts[n].kind = "response"
                  /\ Is2xx(attempts[n].status)
                  /\ attempts[n].body.kind = "object")
                    => (n - 1 <= self.retry_count
                          /\ outcome = <<Return(attempts[n].body)>>)

\* C1, its case: on a connector with the default retry_count, three 503
\* responses, then a 200, and send_data has returned the body of the 200
C1_Witness ==
    /\ self.retry_count = retry_count_default
    /\ pc = "idle" /\ call.op = "send_data"
    /\ Len(attempts) = 4
    /\ \A i \in 1..3 : attempts[i].kind = "response" /\ attempts[i].status = 503
    /\ attempts[4] = Response(200, JsonBody(TRUE, 0, FALSE))
    /\ outcome = <<Return(JsonBody(TRUE, 0, FALSE))>>

\* C2: get_health maps the status of the health response directly: once the
\* session has handed back the endpoint's response, get_health has returned
\* true for a 200 and false for any other status, and the (status, code)
\* lookup table was not consulted.  (Stated for the responses with a JSON
\* body and a status the session does not retry.)
C2_HealthMapsStatus ==
    (pc = "idle" /\ call.op = "get_health" /\ attempts # <<>>
        /\ attempts[Len(attempts)].kind = "response"
        /\ attempts[Len(attempts)].body.kind = "object"
        /\ attempts[Len(attempts)].status \notin RetriedStatuses)
      => (/\ outcome = <<Return(attempts[Len(attempts)].status = 200)>>
          /\ ~consulted)

\* a response that is an application-level rejection: a status that is not
\* 2xx and a body whose code is listed under that status in the lookup table
IsRejection(r) ==
    /\ r.kind = "response" /\ ~Is2xx(r.status)
    /\ r.body.kind = "object" /\ r.body.hascode
    /\ r.status \in DOMAIN SplunkResCodes
    /\ r.body.code \in DOMAIN SplunkResCodes[r.status]

\* the decoded message of a rejection is among the lines logged
DecodedLogged(r) ==
    \E j \in 1..Len(log) :
        Contains(log[j], "-message: " \o SplunkResCodes[r.status][r.body.code])

\* C3: application-level rejections are not retried.  For send_data and
\* send_acks, a rejection (400/7, 401/3, 403/4, 500/8, 503/9, ...) is the
\* last answer of the request: the operation has ended with it and the caller
\* has observed a failure.
C3_RejectionNeverRetried ==
    (call.op \in {"send_data", "send_acks"}) =>
        \A i \in 1..Len(attempts) :
            IsRejection(attempts[i])
              => (/\ i = Len(attempts) /\ pc = "idle"
                  /\ Len(outcome) = 1 /\ outcome[1].kind = "raise")

\* C3 as amended: a rejection whose status is none of 500, 502, 503, 504 (the
\* 400, 401 and 403 rows of the table) is the last answer of the request, the
\* operation has ended with an HTTPError and the decoded message is logged;
\* a rejection with a status of 500 or 503 (500/8, 503/9) is retried like any
\* response of that status while the retry count lasts.
C3_RejectionOutsideForcelistNeverRetried ==
    (call.op \in {"send_data", "send_acks"}) =>
        \A i \in 1..Len(attempts) :
            IsRejection(attempts[i]) =>
                IF attempts[i].status \in RetriedStatuses
                THEN i <= self.retry_count => (i < Len(attempts) \/ pc = "inflight")
                ELSE /\ i = Len(attempts) /\ pc = "idle"
                     /\ outcome = <<Raise("HTTPError")>>
                     /\ DecodedLogged(attempts[i])

\* C3, its case: a 401/3 rejection arrives after a retried 503/9 and ends
\* send_acks
C3_Witness ==
    /\ pc = "idle" /\ call.op = "send_acks"
    /\ Len(attempts) = 2
    /\ attempts[1] = Response(503, JsonBody(TRUE, 9, FALSE))
    /\ attempts[2] = Response(401, JsonBody(TRUE, 3, FALSE))
    /\ outcome = <<Raise("HTTPError")>>

C5_ChannelPlacement ==
    (res.made /\ res.raised = "" /\ res.action \in {"get-health", "send-event", "send-ack"})
      => LET inUrl == Contains(res.url, "?channel=")
             inHeader == "x-splunk-request-channel" \in DOMAIN res.headers
         IN  IF res.action = "get-health" \/ ~Truthy(self.channel)
             THEN ~inUrl /\ ~inHeader
             ELSE /\ inUrl <=> self.channel_in = "url"
                  /\ inHeader <=> self.channel_in = "header"

\* C6: source override.  For a dict record with a "source" key and overrides
\* allowed, the envelope's source is the record's value and no "source" key
\* is left in the record written under "event"; with overrides not allowed,
\* or a record that is no dict, the envelope's source is the connector's.
C6_SourceOverride ==
    fmt.made =>
        LET r == fmt.input
            env == fmt.envelope
        IN  IF isdict(r) /\ self.allow_overrides
            THEN ("source" \in DOMAIN r.map) =>
                    /\ env["source"] = PyStr(r.map["source"])
                    /\ isdict(env["event"]) => "source" \notin DOMAIN env["event"].map
            ELSE env["source"] = PyStr(self.source)

\* C6, its case: a dict with a source and no event of its own, overrides
\* allowed: the rest of the record is what "event" holds
C6_Witness ==
    /\ fmt.made /\ self.allow_overrides
    /\ fmt.input = PyDict([k \in {"source", "extra"} |-> RecVal(k)])
    /\ fmt.envelope["source"] = PyStr(RecVal("source"))
    /\ fmt.envelope["event"] = PyDict([k \in {"extra"} |-> RecVal(k)])

\* the rows of the lookup table of the specification
TableRows ==
    { <<200, 0, "Success">>, <<400, 5, "No data">>, <<400, 6, "Invalid data format">>,
      <<400, 7, "Incorrect index">>, <<400, 10, "Data channel is missing">>,
      <<400, 11, "Invalid data channel">>, <<400, 12, "Event field is required">>,
      <<400, 13, "Event field cannot be blank">>, <<400, 14, "ACK is disabled">>,
      <<400, 15, "Error in handling indexed fields">>,
      <<400, 16, "Query string authorization is not enabled">>,
      <<401, 2, "Token is required">>, <<401, 3, "Invalid authorization">>,
      <<403, 1, "Token disabled">>, <<403, 4, "Invalid token">>,
      <<500, 8, "Internal server error">>, <<503, 9, "Server is busy">> }

\* C7: decoding.  A (status, code) pair of the table decodes to its message;
\* a pair whose status is in the table and whose code is not decodes to "Not
\* a valid Splunk Error"; a status that is not in the table raises (KeyError).
\* A 400/7 response is checked as a failure, with "Incorrect index" logged,
\* and a 200/0 response as a success.
C7_Decoding ==
    /\ Cardinality(TableRows) = 17
    /\ (dec.made /\ dec.via = "decode") =>
          LET rows == {row \in TableRows : row[1] = dec.status /\ row[2] = dec.body.code}
          IN  /\ \A row \in rows : dec.raised = "" /\ dec.msg = row[3]
              /\ (rows = {} /\ \E row \in TableRows : row[1] = dec.status)
                    => (dec.raised = "" /\ dec.msg = "Not a valid Splunk Error")
              /\ (\A row \in TableRows : row[1] # dec.status) => dec.raised = "KeyError"
    /\ (dec.made /\ dec.via = "check" /\ dec.body = JsonBody(TRUE, 7, FALSE)
           /\ dec.status = 400)
          => /\ dec.raised = "HTTPError"
             /\ dec.log = <<"ERROR Splunk response: -code: 7, -HTTPcode: 400, -message: Incorrect index">>
    /\ (dec.made /\ dec.via = "check" /\ dec.body = JsonBody(TRUE, 0, FALSE)
           /\ dec.status = 200)
          => dec.raised = ""

\* C7, its case: a status the table does not hold was decoded
C7_Witness ==
    /\ dec.made /\ dec.via = "decode"
    /\ dec.status = 404 /\ dec.body.code = 7 /\ dec.raised = "KeyError"

RECURSIVE AcksOracle(_, _)
\* the members of ids from the i-th on, as json.dumps writes them
AcksOracle(ids, i) ==
    IF i > Len(ids) THEN ""
    ELSE ToString(ids[i]) \o (IF i < Len(ids) THEN ", " ELSE "") \o AcksOracle(ids, i + 1)

\* C8: normalisation of the acknowledgement argument.  send_acks(x) for an
\* ack id x posts the body send_acks([x]) posts, and send_acks(L) for a list L
\* posts {"acks": L} with the ids in the order given; the request is a POST
\* to the ack endpoint, never versioned.
C8_AckNormalisation ==
    (call.op = "send_acks") =>
        LET a == call.arg
            ids == IF a.kind = "list" THEN [i \in 1..Len(a.items) |-> a.items[i].int]
                   ELSE <<a.int>>
            req == call.request
        IN  /\ req.payload.text = "{\"acks\": [" \o AcksOracle(ids, 1) \o "]}"
            /\ a = PyInt(2) => req.payload.text = "{\"acks\": [2]}"
            /\ a = PyList(<<PyInt(2)>>) => req.payload.text = "{\"acks\": [2]}"
            /\ a = PyList(<<PyInt(1), PyInt(2), PyInt(3)>>)
                  => req.payload.text = "{\"acks\": [1, 2, 3]}"
            /\ a = PyList(<<PyInt(3), PyInt(1)>>) => req.payload.text = "{\"acks\": [3, 1]}"
            /\ req.method = "POST"
            /\ req.url = "https://splunk.example:8088/services/collector/ack"

\* C8, its case: a single ack id was sent, and the endpoint has answered
C8_Witness ==
    /\ call.op = "send_acks" /\ call.arg = PyInt(2)
    /\ call.request.payload.text = "{\"acks\": [2]}"
    /\ pc = "idle" /\ Len(attempts) = 1 /\ Len(outcome) = 1 /\ outcome[1].kind = "return"

\* C9: the response interpreter succeeds if and only if the status is 2xx:
\* a check of a response with a status in 200..299 raises nothing, a check of
\* any other response raises.  (Stated for the responses whose body is a JSON
\* object, with or without a code.)
C9_SuccessIff2xx ==
    (dec.made /\ dec.via = "check" /\ dec.body.kind = "object")
      => (dec.raised = "" <=> Is2xx(dec.status))

\* C10: the envelope has the keys time, host, source, sourcetype, index and
\* event, and "fields" as well exactly when the connector's source_type is
\* "_json" and the record is a dict; "fields" then holds the whole record as
\* the caller passed it in.
C10_FieldsIsOriginalRecord ==
    fmt.made =>
        LET withFields == self.source_type = "_json" /\ isdict(fmt.input)
        IN  /\ DOMAIN fmt.envelope =
                 {"time", "host", "source", "sourcetype", "index", "event"}
                    \cup (IF withFields THEN {"fields"} ELSE {})
            /\ withFields => fmt.envelope["fields"] = fmt.input

====
